---------------------------- MODULE Spec2Model ----------------------------
(***************************************************************************)
(* A model of json-structural-diff: the recursive diff engine              *)
(* (src/src/diff.rs) and the diff renderer (src/src/colorize.rs).          *)
(*                                                                         *)
(* A serde_json Value is a tagged record: [t |-> "null"], [t |-> "bool",   *)
(* v |-> b], [t |-> "num", v |-> n], [t |-> "str", v |-> s], [t |-> "arr", *)
(* v |-> <<...>>] and [t |-> "obj", v |-> f] with f a function from key    *)
(* strings to Values.  serde_json's Map is a BTreeMap here (the crate's    *)
(* default): test_array_of_objects (diff.rs:490-498) passes only when      *)
(* "__next" iterates after the "__$!SCALAR<n>" keys, i.e. in key order.    *)
(*                                                                         *)
(* Scores are f64 in the code.  The model keeps them exact as integers in  *)
(* units of 1/ScoreUnit, ScoreUnit a power of 5, so that subscore / 5. is  *)
(* exact at every nesting level the inputs reach.                          *)
(***************************************************************************)
EXTENDS Integers, Sequences, FiniteSets, TLC

VARIABLES json1, json2, keys_only, pc, result, rendered, text

vars == <<json1, json2, keys_only, pc, result, rendered, text>>

---------------------------------------------------------------------------
(* Bounds of the input universe.                                           *)

MaxLen == 3

MaxDepth == 3

(* The length of the longest inner array of the nested-array inputs. *)
LongLen == 6

ScoreUnit == 5 ^ MaxDepth

---------------------------------------------------------------------------
(* serde_json::Value                                                       *)

Null == [t |-> "null"]

Bool(b) == [t |-> "bool", v |-> b]

Num(n) == [t |-> "num", v |-> n]

Str(s) == [t |-> "str", v |-> s]

Arr(s) == [t |-> "arr", v |-> s]

Obj(f) == [t |-> "obj", v |-> f]

(* Option<Value>::None *)
None == [t |-> "none"]

IsNull(x) == x.t = "null"

IsBoolean(x) == x.t = "bool"

IsNumber(x) == x.t = "num"

IsString(x) == x.t = "str"

IsArray(x) == x.t = "arr"

IsObject(x) == x.t = "obj"

EmptyMap == [k \in {} |-> Null]

MapInsert(m, k, x) == [y \in (DOMAIN m) \cup {k} |-> IF y = k THEN x ELSE m[y]]

Max(a, b) == IF a >= b THEN a ELSE b

Min(a, b) == IF a <= b THEN a ELSE b

Clamp(x, lo, hi) == IF x < lo THEN lo ELSE IF x > hi THEN hi ELSE x

(* The element of a one-element set.  A value that an operator uses more   *)
(* than once is computed once by binding it: Only({e(x) : x \in {value}}). *)
Only(S) == CHOOSE x \in S : TRUE

(* The keys the model's maps can hold, in the byte order a BTreeMap        *)
(* iterates them in.                                                       *)
AllKeysSorted ==
    << "__deleted", "__new", "__old",
       "a", "a__added", "a__deleted", "a__deleted__added",
       "a__deleted__deleted",
       "b", "b__added", "b__deleted" >>

SortedKeys(S) == SelectSeq(AllKeysSorted, LAMBDA k : k \in S)

---------------------------------------------------------------------------
(* Value::to_string: the compact JSON text of a value.                     *)

DigitText == <<"0", "1", "2", "3", "4", "5", "6", "7", "8", "9">>

RECURSIVE NumText(_)
NumText(n) ==
    IF n < 10 THEN DigitText[n + 1]
    ELSE NumText(n \div 10) \o DigitText[(n % 10) + 1]

RECURSIVE to_string(_)
RECURSIVE JoinValues(_, _)
RECURSIVE JoinMembers(_, _, _)

JoinValues(s, i) ==
    IF i > Len(s) THEN ""
    ELSE (IF i > 1 THEN "," ELSE "") \o to_string(s[i]) \o JoinValues(s, i + 1)

JoinMembers(f, ks, i) ==
    IF i > Len(ks) THEN ""
    ELSE (IF i > 1 THEN "," ELSE "") \o "\"" \o ks[i] \o "\":"
         \o to_string(f[ks[i]]) \o JoinMembers(f, ks, i + 1)

to_string(x) ==
    CASE x.t = "null" -> "null"
      [] x.t = "bool" -> IF x.v THEN "true" ELSE "false"
      [] x.t = "num"  -> NumText(x.v)
      [] x.t = "str"  -> "\"" \o x.v \o "\""
      [] x.t = "arr"  -> "[" \o JoinValues(x.v, 1) \o "]"
      [] x.t = "obj"  ->
            Only({"{" \o JoinMembers(x.v, ks, 1) \o "}" :
                    ks \in {SortedKeys(DOMAIN x.v)}})

---------------------------------------------------------------------------
(* difflib's SequenceMatcher::get_opcodes (no junk; the popularity         *)
(* heuristic starts at 200 elements).  Indices are 0-based and ranges      *)
(* half-open, as in the crate: element i of a is a[i + 1] here.            *)

RECURSIVE RunLen(_, _, _, _, _, _)
RunLen(a, b, i, j, ahi, bhi) ==
    IF i < ahi /\ j < bhi /\ a[i + 1] = b[j + 1]
    THEN 1 + RunLen(a, b, i + 1, j + 1, ahi, bhi)
    ELSE 0

Match(i, j, size) == [i |-> i, j |-> j, size |-> size]

(* The longest block a[i..i+k) = b[j..j+k) inside the two ranges; of the   *)
(* longest, the one that starts earliest in a, then earliest in b.         *)
find_longest_match(a, b, alo, ahi, blo, bhi) ==
    Only({ IF cells = {} THEN Match(alo, blo, 0)
           ELSE CHOOSE c \in cells :
                   \A d \in cells :
                      \/ c.size > d.size
                      \/ /\ c.size = d.size
                         /\ \/ c.i < d.i
                            \/ c.i = d.i /\ c.j <= d.j
           : cells \in {{ Match(i, j, RunLen(a, b, i, j, ahi, bhi)) :
                            <<i, j>> \in {p \in (alo .. ahi - 1) \X (blo .. bhi - 1) :
                                            a[p[1] + 1] = b[p[2] + 1]} }} })

RECURSIVE matching_blocks_in(_, _, _, _, _, _)
matching_blocks_in(a, b, alo, ahi, blo, bhi) ==
    Only({ IF m.size = 0 THEN << >>
           ELSE (IF alo < m.i /\ blo < m.j
                 THEN matching_blocks_in(a, b, alo, m.i, blo, m.j) ELSE << >>)
                \o <<m>>
                \o (IF m.i + m.size < ahi /\ m.j + m.size < bhi
                    THEN matching_blocks_in(a, b, m.i + m.size, ahi, m.j + m.size, bhi)
                    ELSE << >>)
           : m \in {find_longest_match(a, b, alo, ahi, blo, bhi)} })

(* Adjacent blocks are merged: blocks[n] joins the block before it when it *)
(* starts where that one ends.                                             *)
RECURSIVE merge_blocks(_, _)
merge_blocks(blocks, n) ==
    IF n = 0 THEN << >>
    ELSE Only({ IF merged # << >>
                   /\ merged[Len(merged)].i + merged[Len(merged)].size = blocks[n].i
                   /\ merged[Len(merged)].j + merged[Len(merged)].size = blocks[n].j
                THEN [merged EXCEPT ![Len(merged)].size = @ + blocks[n].size]
                ELSE Append(merged, blocks[n])
                : merged \in {merge_blocks(blocks, n - 1)} })

(* The (la, lb, 0) sentinel closes the list. *)
get_matching_blocks(a, b) ==
    Only({ merge_blocks(blocks, Len(blocks)) : 
             blocks \in {matching_blocks_in(a, b, 0, Len(a), 0, Len(b))} })
    \o <<Match(Len(a), Len(b), 0)>>

Opcode(tag, i1, i2, j1, j2) ==
    [tag |-> tag, first_start |-> i1, first_end |-> i2,
     second_start |-> j1, second_end |-> j2]

(* The opcodes of blocks[n ..], the two sequences being consumed up to i   *)
(* and j.                                                                  *)
RECURSIVE opcodes_from(_, _, _, _)
opcodes_from(blocks, n, i, j) ==
    IF n > Len(blocks) THEN << >>
    ELSE Only({ (IF i < m.i /\ j < m.j THEN <<Opcode("replace", i, m.i, j, m.j)>>
                 ELSE IF i < m.i THEN <<Opcode("delete", i, m.i, j, m.j)>>
                 ELSE IF j < m.j THEN <<Opcode("insert", i, m.i, j, m.j)>>
                 ELSE << >>)
                \o (IF m.size > 0
                    THEN <<Opcode("equal", m.i, m.i + m.size, m.j, m.j + m.size)>>
                    ELSE << >>)
                \o opcodes_from(blocks, n + 1, m.i + m.size, m.j + m.size)
                : m \in {blocks[n]} })

get_opcodes(a, b) ==
    Only({ opcodes_from(blocks, 1, 0, 0) : blocks \in {get_matching_blocks(a, b)} })

---------------------------------------------------------------------------
(* JsonDiff (src/src/diff.rs).  A JsonDiff is [score, diff] with diff a    *)
(* Value or None; a panic (a failed assert! or unwrap) is the diff         *)
(* PanicValue, and it propagates to the caller as in the code.             *)

PanicValue == [t |-> "panic"]

Panic == [score |-> 0, diff |-> PanicValue]

JsonDiff(score, diff) == [score |-> score, diff |-> diff]

(* A score literal of the code, in units of 1/ScoreUnit. *)
F(x) == x * ScoreUnit

(* usize::wrapping_sub. TLC's integers are 32 bits wide, so the modulus    *)
(* 2^64 of a usize is stood for by UsizeModulus: every comparison of two   *)
(* distances comes out as in the code for indices below UsizeModulus / 2.  *)
UsizeModulus == 1073741824

wrapping_sub(a, b) == IF a >= b THEN a - b ELSE UsizeModulus - (b - a)

(* The placeholder token minted from the "__next" counter. *)
ProxyKey(n) == "__$!SCALAR" \o NumText(n)

RECURSIVE Digits(_)
Digits(n) == IF n < 10 THEN <<n>> ELSE Digits(n \div 10) \o <<n % 10>>

RECURSIVE LexLess(_, _)
LexLess(s, u) ==
    IF u = << >> THEN FALSE
    ELSE IF s = << >> THEN TRUE
    ELSE IF Head(s) # Head(u) THEN Head(s) < Head(u)
    ELSE LexLess(Tail(s), Tail(u))

(* An originals map is [map, next]: map holds the entries other than       *)
(* "__next", next is the counter kept under "__next".  The map iterates in *)
(* key order: "__$!SCALAR10" comes before "__$!SCALAR2", and "__next"      *)
(* after them all.  OriginalsKeys is the sequence of the keys of map in    *)
(* that order.                                                             *)
OriginalsKeys(originals) ==
    Only({ [p \in 1 .. Cardinality(nums) |->
              ProxyKey(CHOOSE n \in nums :
                  Cardinality({m \in nums : LexLess(Digits(m), Digits(n))}) = p - 1)]
           : nums \in {{n \in 1 .. (originals.next - 1) :
                          ProxyKey(n) \in DOMAIN originals.map}} })

check_type(item1, item2) ==
    \/ IsNull(item1) = IsNull(item2)
    \/ IsBoolean(item1) = IsBoolean(item2)
    \/ IsNumber(item1) = IsNumber(item2)
    \/ IsString(item1) = IsString(item2)
    \/ IsArray(item1) = IsArray(item2)
    \/ IsObject(item1) = IsObject(item2)

is_scalarized(key, originals) == key \in DOMAIN originals.map

get_scalar(key, scalar_values) ==
    IF key \in DOMAIN scalar_values THEN scalar_values[key] ELSE PanicValue

descalarize(key, scalar_values, originals) ==
    IF key \in DOMAIN originals.map THEN originals.map[key]
    ELSE get_scalar(key, scalar_values)

(* format!("{key}__deleted") and format!("{key}__added") *)
key_deleted(key) == key \o "__deleted"

(* A variant of key_added that names an addition as a deletion. *)
key_added_as_deleted(key) == key \o "__deleted"

key_added(key) == key \o "__added"

(* A variant of FuzzyThreshold: a stricter acceptance of fuzzy matches. *)
FuzzyThresholdRaised == 40 + 20

(* A match is taken only with best_match.score > 40. *)
FuzzyThreshold == 40

RECURSIVE diff_with_score(_, _, _)
RECURSIVE object_diff(_, _, _)
RECURSIVE array_diff(_, _, _)
RECURSIVE find_matching_loop(_, _, _, _, _, _)
RECURSIVE scalarize_loop(_, _, _, _)
RECURSIVE equal_entries(_, _, _, _, _)
RECURSIVE replace_keys_entries(_, _, _, _, _, _)

diff(js1, js2, keysOnly) == diff_with_score(js1, js2, keysOnly)

(* What the third loop of object_diff adds to score over the shared keys   *)
(* of sub: 20 and the clamped fifth of the subscore for each.              *)
RECURSIVE shared_score(_)
shared_score(sub) ==
    IF sub = {} THEN 0
    ELSE Only({ F(20) + Clamp(p[2].score \div 5, F(-10), F(20))
                  + shared_score(sub \ {p})
                : p \in {CHOOSE q \in sub : TRUE} })

(* The result map and the score of object_diff, sub being the JsonDiff of  *)
(* each key the two objects share, as the set of <<key, JsonDiff>>.        *)
object_diff_result(obj1, obj2, sub) ==
    Only({ IF \E p \in sub : p[2].diff = PanicValue THEN Panic
           ELSE IF keys = {}
           THEN JsonDiff(Max(F(100) * Cardinality(DOMAIN obj1), F(50)), None)
           ELSE JsonDiff(
                  Max(shared_score(sub)
                        - F(30) * Cardinality((DOMAIN obj1) \ (DOMAIN obj2))
                        - F(30) * Cardinality((DOMAIN obj2) \ (DOMAIN obj1)),
                      0),
                  (* Map::insert in the order of the three loops: a later   *)
                  (* insert of an equal key replaces the earlier value.     *)
                  Obj([key \in keys |->
                         IF \E p \in sub : p[1] = key /\ p[2].diff # None
                         THEN (CHOOSE p \in sub : p[1] = key)[2].diff
                         ELSE IF \E k \in (DOMAIN obj2) \ (DOMAIN obj1) : key = key_added(k)
                         THEN obj2[CHOOSE k \in (DOMAIN obj2) \ (DOMAIN obj1) :
                                      key = key_added(k)]
                         ELSE obj1[CHOOSE k \in (DOMAIN obj1) \ (DOMAIN obj2) :
                                      key = key_deleted(k)]]))
           : keys \in {{key_deleted(k) : k \in (DOMAIN obj1) \ (DOMAIN obj2)}
                         \cup {key_added(k) : k \in (DOMAIN obj2) \ (DOMAIN obj1)}
                         \cup {p[1] : p \in {q \in sub : q[2].diff # None}}} })

object_diff(obj1, obj2, keysOnly) ==
    Only({ object_diff_result(obj1, obj2, sub)
           : sub \in {{ <<k, diff_with_score(obj1[k], obj2[k], keysOnly)>> :
                          k \in (DOMAIN obj1) \cap (DOMAIN obj2) }} })

NoMatch == [some |-> FALSE, panic |-> FALSE]

BestMatch(score, key, index_distance) ==
    [some |-> TRUE, panic |-> FALSE, score |-> score, key |-> key,
     index_distance |-> index_distance]

(* One turn of the loop of find_matching_object: the best match after the  *)
(* candidate under key, at position match_index, whose diff against item   *)
(* is d.                                                                   *)
better_match(best_match, item, candidate, key, index_distance, d) ==
    IF ~check_type(item, candidate) THEN best_match
    ELSE IF d.diff = PanicValue THEN [best_match EXCEPT !.panic = TRUE]
    ELSE IF \/ (~best_match.some \/ d.score > best_match.score)
            \/ /\ (~best_match.some \/ d.score = best_match.score)
               /\ (~best_match.some \/ index_distance < best_match.index_distance)
    THEN BestMatch(d.score, key, index_distance)
    ELSE best_match

(* The loop of find_matching_object from position match_index on, keys     *)
(* being the keys of fuzzy_originals in iteration order.                   *)
find_matching_loop(item, index, fuzzy_originals, keys, match_index, best_match) ==
    IF match_index >= Len(keys) \/ best_match.panic THEN best_match
    ELSE Only({ find_matching_loop(item, index, fuzzy_originals, keys,
                                   match_index + 1, next_best)
                : next_best \in
                    {better_match(best_match, item,
                                  fuzzy_originals.map[keys[match_index + 1]],
                                  keys[match_index + 1],
                                  wrapping_sub(match_index, index), d)
                       : d \in {diff(item, fuzzy_originals.map[keys[match_index + 1]],
                                     FALSE)}} })

find_matching_object(item, index, fuzzy_originals) ==
    Only({ find_matching_loop(item, index, fuzzy_originals, keys, 0, NoMatch)
           : keys \in {OriginalsKeys(fuzzy_originals)} })

NoFuzzy == [some |-> FALSE]

SomeFuzzy(originals) == [some |-> TRUE, originals |-> originals]

(* The state of one scalarize call: the two maps it fills (the "__next"    *)
(* counter is originals.next), and the tokens pushed so far.               *)
ScalarizeState(scalar_values, originals, output_array, panic) ==
    [scalar_values |-> scalar_values, originals |-> originals,
     output_array |-> output_array, panic |-> panic]

(* One turn of the loop of scalarize on item, key being item.to_string()   *)
(* and best_match what find_matching_object gave (NoMatch without          *)
(* fuzzy_originals).                                                       *)
(* scalarize without the insert of diff.rs:158: a fuzzy match hands out   *)
(* the matched token but originals never records it.                      *)
scalarize_item_unrecorded(st, item, key, best_match) ==
    IF /\ best_match.some
       /\ best_match.score > F(FuzzyThreshold)
       /\ best_match.key \notin DOMAIN st.originals.map
    THEN ScalarizeState(
            IF IsObject(item) THEN st.scalar_values
            ELSE MapInsert(st.scalar_values, key, item),
            st.originals,
            Append(st.output_array, best_match.key),
            best_match.panic)
    ELSE IF IsObject(item)
    THEN ScalarizeState(
            st.scalar_values,
            [map |-> MapInsert(st.originals.map, ProxyKey(st.originals.next), item),
             next |-> st.originals.next + 1],
            Append(st.output_array, ProxyKey(st.originals.next)),
            best_match.panic)
    ELSE ScalarizeState(
            MapInsert(st.scalar_values, key, item),
            st.originals,
            Append(st.output_array, key),
            best_match.panic)

scalarize_item(st, item, key, best_match) ==
    IF /\ best_match.some
       /\ best_match.score > F(FuzzyThreshold)
       /\ best_match.key \notin DOMAIN st.originals.map
    THEN ScalarizeState(
            IF IsObject(item) THEN st.scalar_values
            ELSE MapInsert(st.scalar_values, key, item),
            [st.originals EXCEPT !.map = MapInsert(@, best_match.key, item)],
            Append(st.output_array, best_match.key),
            best_match.panic)
    ELSE IF IsObject(item)
    THEN ScalarizeState(
            st.scalar_values,
            [map |-> MapInsert(st.originals.map, ProxyKey(st.originals.next), item),
             next |-> st.originals.next + 1],
            Append(st.output_array, ProxyKey(st.originals.next)),
            best_match.panic)
    ELSE ScalarizeState(
            MapInsert(st.scalar_values, key, item),
            st.originals,
            Append(st.output_array, key),
            best_match.panic)

scalarize_loop(array, index, st, fuzzy) ==
    IF index >= Len(array) \/ st.panic THEN st
    ELSE Only({ scalarize_loop(array, index + 1, next_st, fuzzy)
                : next_st \in
                    {scalarize_item(st, array[index + 1], key, best_match)
                       : key \in {to_string(array[index + 1])},
                         best_match \in
                           {IF fuzzy.some
                            THEN find_matching_object(array[index + 1], index,
                                                      fuzzy.originals)
                            ELSE NoMatch}} })

(* scalarize on fresh maps whose "__next" counter is next. *)
scalarize(array, next, fuzzy) ==
    scalarize_loop(array, 0,
        ScalarizeState(EmptyMap, [map |-> EmptyMap, next |-> next], << >>, FALSE),
        fuzzy)

Entry1(tag) == Arr(<<Str(tag)>>)

Entry2(tag, x) == Arr(<<Str(tag), x>>)

(* What the "equal" arm pushes for key, a token of seq1. *)
equal_entry(s1, s2, key, keysOnly) ==
    IF is_scalarized(key, s1.originals)
    THEN IF ~is_scalarized(key, s2.originals) THEN PanicValue
         ELSE Only({ IF change = PanicValue THEN PanicValue
                     ELSE IF change # None THEN Entry2("~", change)
                     ELSE Entry1(" ")
                     : change \in
                         {diff(descalarize(key, s1.scalar_values, s1.originals),
                               descalarize(key, s2.scalar_values, s2.originals),
                               keysOnly).diff} })
    ELSE IF get_scalar(key, s1.scalar_values) = PanicValue THEN PanicValue
    ELSE Entry2(" ", get_scalar(key, s1.scalar_values))

(* The "equal" arm for the tokens seq1[i .. hi): the entries pushed. *)
equal_entries(s1, s2, i, hi, keysOnly) ==
    IF i >= hi THEN << >>
    ELSE <<equal_entry(s1, s2, s1.output_array[i + 1], keysOnly)>>
         \o equal_entries(s1, s2, i + 1, hi, keysOnly)

(* A variant of tagged_entries that walks the range backwards. *)
tagged_entries_reversed(tag, st, lo, hi) ==
    [n \in 1 .. (hi - lo) |->
        IF descalarize(st.output_array[hi + 1 - n], st.scalar_values,
                       st.originals) = PanicValue
        THEN PanicValue
        ELSE Arr(<<Str(tag), descalarize(st.output_array[hi + 1 - n],
                                         st.scalar_values, st.originals)>>)]

(* The "delete" and "insert" arms: one tagged entry per token of st's      *)
(* output_array[lo .. hi).                                                 *)
tagged_entry(tag, x) == IF x = PanicValue THEN PanicValue ELSE Entry2(tag, x)

tagged_entries(tag, st, lo, hi) ==
    [n \in 1 .. (hi - lo) |->
        tagged_entry(tag, descalarize(st.output_array[lo + n], st.scalar_values,
                                      st.originals))]

(* What the "replace" arm pushes under keys_only for one zipped pair. *)
replace_keys_entry(s1, s2, key1, key2) ==
    Only({ IF change = PanicValue THEN PanicValue
           ELSE IF change # None THEN Entry2("~", change)
           ELSE Str(" ")
           : change \in
               {diff(descalarize(key1, s1.scalar_values, s1.originals),
                     descalarize(key2, s2.scalar_values, s2.originals),
                     TRUE).diff} })

(* The "replace" arm under keys_only: seq1[i .. first_end) zipped with     *)
(* seq2 from j on, seq2's side ending at min(len, first_end - first_start  *)
(* + second_start).                                                        *)
replace_keys_entries(s1, s2, i, first_end, j, second_stop) ==
    IF i >= first_end \/ j >= second_stop THEN << >>
    ELSE <<replace_keys_entry(s1, s2, s1.output_array[i + 1], s2.output_array[j + 1])>>
         \o replace_keys_entries(s1, s2, i + 1, first_end, j + 1, second_stop)

(* What one opcode pushes to result. *)
opcode_entries(op, s1, s2, keysOnly) ==
    CASE op.tag = "equal" ->
            equal_entries(s1, s2, op.first_start, op.first_end, keysOnly)
      [] op.tag = "delete" ->
            tagged_entries("-", s1, op.first_start, op.first_end)
      [] op.tag = "insert" ->
            tagged_entries("+", s2, op.second_start, op.second_end)
      [] op.tag = "replace" ->
            IF keysOnly
            THEN replace_keys_entries(s1, s2, op.first_start, op.first_end,
                    op.second_start,
                    Min(Len(s2.output_array),
                        op.first_end - op.first_start + op.second_start))
            ELSE tagged_entries("-", s1, op.first_start, op.first_end)
                 \o tagged_entries("+", s2, op.second_start, op.second_end)

(* What one opcode adds to score. *)
opcode_score(op, keysOnly) ==
    CASE op.tag = "equal" -> F(10) * (op.first_end - op.first_start)
      [] op.tag = "delete" -> - F(5) * (op.first_end - op.first_start)
      [] op.tag = "insert" -> - F(5) * (op.second_end - op.second_start)
      [] op.tag = "replace" ->
            IF keysOnly THEN 0
            ELSE - F(5) * (op.first_end - op.first_start)
                 - F(5) * (op.second_end - op.second_start)

RECURSIVE all_entries(_, _, _, _, _)
all_entries(opcodes, n, s1, s2, keysOnly) ==
    IF n > Len(opcodes) THEN << >>
    ELSE opcode_entries(opcodes[n], s1, s2, keysOnly)
         \o all_entries(opcodes, n + 1, s1, s2, keysOnly)

RECURSIVE total_score(_, _, _)
total_score(opcodes, n, keysOnly) ==
    IF n > Len(opcodes) THEN 0
    ELSE opcode_score(opcodes[n], keysOnly) + total_score(opcodes, n + 1, keysOnly)

(* A variant of IsChange under which a ["~", change] leaves all_equal set. *)
IsChangeIgnored(entry) == FALSE

(* An entry that clears all_equal when pushed: a ["~", change]. *)
IsChange(entry) == entry.t = "arr" /\ entry.v[1] = Str("~")

(* The end of array_diff: the JsonDiff made of the opcodes and of result,  *)
(* the entries the loop over the opcodes pushed.                           *)
array_diff_result(opcodes, result_, keysOnly) ==
    IF \E n \in 1 .. Len(result_) : result_[n] = PanicValue THEN Panic
    ELSE IF \/ /\ \A n \in 1 .. Len(opcodes) :
                     \/ opcodes[n].tag = "equal"
                     \/ (keysOnly /\ opcodes[n].tag = "replace")
               /\ \A n \in 1 .. Len(result_) : ~IsChange(result_[n])
            \/ opcodes = << >>
    THEN JsonDiff(F(100), None)
    ELSE JsonDiff(Max(total_score(opcodes, 1, keysOnly), 0), Arr(result_))

(* array_diff after the two scalarize calls. *)
array_diff_scalarized(s1, s2, keysOnly) ==
    IF s1.panic \/ s2.panic THEN Panic
    ELSE Only({ Only({ array_diff_result(opcodes, result_, keysOnly)
                       : result_ \in {all_entries(opcodes, 1, s1, s2, keysOnly)} })
                : opcodes \in {get_opcodes(s1.output_array, s2.output_array)} })

array_diff(array1, array2, keysOnly) ==
    Only({ Only({ array_diff_scalarized(s1, s2, keysOnly)
                  : s2 \in {scalarize(array2, s1.originals.next,
                                      SomeFuzzy(s1.originals))} })
           : s1 \in {scalarize(array1, 1, NoFuzzy)} })

(* json!({ "__old": json1, "__new": json2 }) *)
old_new(js1, js2) ==
    Obj([k \in {"__old", "__new"} |-> IF k = "__old" THEN js1 ELSE js2])

(* A variant of scalar_diff that puts the first value under "__new". *)
scalar_diff_swapped(js1, js2, keysOnly) ==
    IF ~keysOnly /\ js1 # js2
    THEN JsonDiff(F(0), old_new(js2, js1))
    ELSE JsonDiff(F(100), None)

(* A variant of scalar_diff that compares the values under keys_only too. *)
scalar_diff_by_value(js1, js2, keysOnly) ==
    IF js1 # js2
    THEN JsonDiff(F(0), old_new(js1, js2))
    ELSE JsonDiff(F(100), None)

(* The last arm of diff_with_score: two values that are not both objects   *)
(* and not both arrays.                                                    *)
scalar_diff(js1, js2, keysOnly) ==
    IF ~keysOnly /\ js1 # js2
    THEN JsonDiff(F(0), old_new(js1, js2))
    ELSE JsonDiff(F(100), None)

diff_with_score(js1, js2, keysOnly) ==
    IF js1 = PanicValue \/ js2 = PanicValue THEN Panic
    ELSE IF IsObject(js1) /\ IsObject(js2) THEN object_diff(js1.v, js2.v, keysOnly)
    ELSE IF IsArray(js1) /\ IsArray(js2) THEN array_diff(js1.v, js2.v, keysOnly)
    ELSE scalar_diff(js1, js2, keysOnly)

---------------------------------------------------------------------------
(* The renderer (src/src/colorize.rs).  A line handed to the output        *)
(* closure is kept as [color, line]; the closure of colorize_to_array      *)
(* stores format!("{color}{line}").  A panic (an index out of bounds, an   *)
(* unwrap of None, the assert! on op) is the line PanicLine.               *)

OutLine(color, line) == [color |-> color, line |-> line]

PanicLine == [color |-> "!", line |-> "panic"]

NoKey == [some |-> FALSE]

SomeKey(k) == [some |-> TRUE, v |-> k]

(* The two regular expressions on a key, "anything, then the suffix, then  *)
(* the end": whether the key matches, and what it captures before the      *)
(* suffix.                                                                 *)
KeyStems == {""} \cup {AllKeysSorted[n] : n \in 1 .. Len(AllKeysSorted)}

HasSuffix(k, suffix) == \E x \in KeyStems : x \o suffix = k

Stem(k, suffix) == CHOOSE x \in KeyStems : x \o suffix = k

OPS == {" ", "-", "+", "~"}

(* What one turn of the detection loop assigns to looks_like_diff. *)
item_looks_like_diff(item) ==
    IF ~IsArray(item) THEN FALSE
    ELSE IF ~(\/ Len(item.v) = 2
              \/ (Len(item.v) = 1 /\ IsString(item.v[1]) /\ item.v[1].v = " "))
    THEN FALSE
    ELSE IF IsString(item.v[1]) THEN item.v[1].v \in OPS
    ELSE FALSE

(* looks_like_diff after the detection loop: every turn assigns it, so the *)
(* last item decides; it stays true for an empty array.                    *)
looks_like_diff(array) ==
    IF array = << >> THEN TRUE ELSE item_looks_like_diff(array[Len(array)])

RECURSIVE subcolorize(_, _, _, _)
RECURSIVE subcolorize_members(_, _, _, _, _)
RECURSIVE subcolorize_diff_items(_, _, _)
RECURSIVE subcolorize_items(_, _, _, _)

(* A variant of subcolorize_pair that renders new before old. *)
subcolorize_pair_swapped(key, obj, indent) ==
    subcolorize(key, obj["__new"], "+", indent)
    \o subcolorize(key, obj["__old"], "-", indent)

(* The arm of a two-key {__old, __new} mapping: old under "-", then new    *)
(* under "+", at the same indentation.                                     *)
subcolorize_pair(key, obj, indent) ==
    subcolorize(key, obj["__old"], "-", indent)
    \o subcolorize(key, obj["__new"], "+", indent)

(* The loop over the members of a mapping, from the n-th key on. *)
subcolorize_members(obj, keys, n, color, subindent) ==
    IF n > Len(keys) THEN << >>
    ELSE (IF HasSuffix(keys[n], "__deleted")
          THEN subcolorize(SomeKey(Stem(keys[n], "__deleted")), obj[keys[n]],
                           "-", subindent)
          ELSE IF HasSuffix(keys[n], "__added")
          THEN subcolorize(SomeKey(Stem(keys[n], "__added")), obj[keys[n]],
                           "+", subindent)
          ELSE subcolorize(SomeKey(keys[n]), obj[keys[n]], color, subindent))
         \o subcolorize_members(obj, keys, n + 1, color, subindent)

(* What one item of an array that looks like a diff gives. *)
subcolorize_diff_item(item, subindent) ==
    IF ~IsArray(item) THEN << >>
    ELSE IF Len(item.v) = 0 \/ ~IsString(item.v[1]) THEN <<PanicLine>>
    ELSE IF item.v[1].v = " " /\ Len(item.v) < 2
    THEN <<OutLine(" ", subindent \o "...")>>
    ELSE IF item.v[1].v \notin OPS \/ Len(item.v) < 2 THEN <<PanicLine>>
    ELSE subcolorize(NoKey, item.v[2],
                     IF item.v[1].v = "~" THEN " " ELSE item.v[1].v, subindent)

subcolorize_diff_items(array, n, subindent) ==
    IF n > Len(array) THEN << >>
    ELSE subcolorize_diff_item(array[n], subindent)
         \o subcolorize_diff_items(array, n + 1, subindent)

subcolorize_items(array, n, color, subindent) ==
    IF n > Len(array) THEN << >>
    ELSE subcolorize(NoKey, array[n], color, subindent)
         \o subcolorize_items(array, n + 1, color, subindent)

(* format!("{key}: ") or the empty string *)
Prefix(key) == IF key.some THEN key.v \o ": " ELSE ""

subcolorize(key, diff_, color, indent) ==
    CASE IsObject(diff_) ->
            IF DOMAIN diff_.v = {"__old", "__new"}
            THEN subcolorize_pair(key, diff_.v, indent)
            ELSE <<OutLine(color, indent \o Prefix(key) \o "{")>>
                 \o subcolorize_members(diff_.v, SortedKeys(DOMAIN diff_.v), 1,
                                        color, indent \o "  ")
                 \o <<OutLine(color, indent \o "}")>>
      [] IsArray(diff_) ->
            <<OutLine(color, indent \o Prefix(key) \o "[")>>
            \o (IF looks_like_diff(diff_.v)
                THEN subcolorize_diff_items(diff_.v, 1, indent \o "  ")
                ELSE subcolorize_items(diff_.v, 1, color, indent \o "  "))
            \o <<OutLine(color, indent \o "]")>>
      [] OTHER -> <<OutLine(color, indent \o Prefix(key) \o to_string(diff_))>>

(* The calls of the output closure up to the first panic. *)
UntilPanic(lines) ==
    IF \E n \in 1 .. Len(lines) : lines[n] = PanicLine
    THEN SubSeq(lines, 1, CHOOSE n \in 1 .. Len(lines) :
                             /\ lines[n] = PanicLine
                             /\ \A m \in 1 .. (n - 1) : lines[m] # PanicLine)
    ELSE lines

colorize_to_array(diff_) ==
    Only({ UntilPanic(lines) : lines \in {subcolorize(NoKey, diff_, " ", "")} })

Panicked(lines) == lines # << >> /\ lines[Len(lines)] = PanicLine

(* A variant of join that puts nothing between the strings. *)
RECURSIVE join_concat(_, _)
join_concat(lines, n) ==
    IF n > Len(lines) THEN ""
    ELSE lines[n].color \o lines[n].line \o join_concat(lines, n + 1)

(* Vec<String>::join("\n") of the stored strings format!("{color}{line}"), *)
(* from the n-th on.                                                       *)
RECURSIVE join(_, _)
join(lines, n) ==
    IF n > Len(lines) THEN ""
    ELSE (IF n > 1 THEN "\n" ELSE "") \o lines[n].color \o lines[n].line
         \o join(lines, n + 1)

(* The closure of diff_string on the Some arm. *)
diff_string_of(value) ==
    Only({ IF Panicked(lines) THEN PanicValue ELSE Str(join(lines, 1) \o "\n")
           : lines \in {colorize_to_array(value)} })

(* JsonDiff::diff_string: Option<String>, or PanicValue. *)
diff_string(js1, js2, keysOnly) ==
    Only({ IF d.diff = PanicValue THEN PanicValue
           ELSE IF d.diff = None THEN None
           ELSE diff_string_of(d.diff)
           : d \in {diff(js1, js2, keysOnly)} })

---------------------------------------------------------------------------
(* The inputs: every pair of values of a bounded universe.  It holds the   *)
(* scalars of each category, objects over the keys "a" and "b" (and over   *)
(* the reserved-looking key "a__deleted"), objects that hold an object or  *)
(* an array, and arrays of at most MaxLen elements: of numbers, of a       *)
(* number and two-field objects, and (one shorter) of objects of at most   *)
(* one field, two arrays shaped like a diff, and two arrays that hold one  *)
(* long array of equal numbers.                                            *)

Numbers == {Num(1), Num(2)}

Scalars == {Null, Bool(TRUE), Str("x")} \cup Numbers

ObjectsOver(K, V) == {Obj(f) : f \in UNION {[S -> V] : S \in SUBSET K}}

SeqsUpTo(S, n) == UNION {[1 .. k -> S] : k \in 0 .. n}

FlatObjects == ObjectsOver({"a", "b"}, Numbers)

ReservedKeyObjects == ObjectsOver({"a", "a__deleted"}, Numbers)

NestedObjects == {Obj([k \in {"a"} |-> o]) : o \in ObjectsOver({"b"}, Numbers)}

ArrayObjects == {Obj([k \in {"a"} |-> Arr(s)]) : s \in SeqsUpTo(Numbers, MaxLen - 1)}

TwoFieldObjects ==
    {Obj([k \in {"a", "b"} |-> IF k = "a" THEN Num(1) ELSE x]) : x \in Numbers}

OneFieldObjects == ObjectsOver({"a"}, Numbers)

Arrays ==
    {Arr(s) : s \in SeqsUpTo(Numbers, MaxLen)}
    \cup {Arr(s) : s \in SeqsUpTo({Num(1)} \cup TwoFieldObjects, MaxLen)}
    \cup {Arr(s) : s \in SeqsUpTo(OneFieldObjects, MaxLen - 1)}

(* Arrays whose last item looks like a diff entry and whose first item is  *)
(* an empty array or a number.                                             *)
DiffLikeArrays ==
    {Arr(<<Arr(<< >>), Arr(<<Str(" "), Num(1)>>)>>),
     Arr(<<Num(1), Arr(<<Str(" "), Num(1)>>)>>)}

(* Arrays whose one element is an array of LongLen - 1 or LongLen equal    *)
(* numbers: two of them differ in one element out of LongLen.              *)
NestedArrays ==
    {Arr(<<Arr([n \in 1 .. k |-> Num(1)])>>) : k \in {LongLen - 1, LongLen}}

Values ==
    Scalars \cup DiffLikeArrays \cup NestedArrays \cup FlatObjects \cup ReservedKeyObjects \cup NestedObjects
    \cup ArrayObjects \cup Arrays

---------------------------------------------------------------------------
(* The state machine: a caller holds two values and a keys_only flag,      *)
(* calls JsonDiff::diff, renders the diff with colorize_to_array, and      *)
(* calls JsonDiff::diff_string on the same inputs.                         *)

Unset == [t |-> "unset"]

InitOn(V) ==
    /\ json1 \in V
    /\ json2 \in V
    /\ keys_only \in BOOLEAN
    /\ pc = "start"
    /\ result = Unset
    /\ rendered = Unset
    /\ text = Unset

Init == InitOn(Values)

(* let json_diff = JsonDiff::diff(&json1, &json2, keys_only); *)
Diff ==
    /\ pc = "start"
    /\ result' = diff(json1, json2, keys_only)
    /\ pc' = IF result'.diff = PanicValue THEN "panicked" ELSE "diffed"
    /\ UNCHANGED <<json1, json2, keys_only, rendered, text>>

(* colorize_to_array(&diff) on the Some(diff) that JsonDiff::diff gave. *)
ColorizeToArray ==
    /\ pc = "diffed"
    /\ result.diff # None
    /\ rendered' = colorize_to_array(result.diff)
    /\ pc' = IF Panicked(rendered') THEN "panicked" ELSE "rendered"
    /\ UNCHANGED <<json1, json2, keys_only, result, text>>

(* JsonDiff::diff_string(&json1, &json2, keys_only) *)
DiffString ==
    /\ pc # "panicked"
    /\ text = Unset
    /\ text' = diff_string(json1, json2, keys_only)
    /\ pc' = IF text' = PanicValue THEN "panicked" ELSE pc
    /\ UNCHANGED <<json1, json2, keys_only, result, rendered>>

Next == Diff \/ ColorizeToArray \/ DiffString

Spec == Init /\ [][Next]_vars

---------------------------------------------------------------------------
(* The command-line wrapper: act_on_file reads and parses two files,       *)
(* compares the values, and writes the diff of unequal values to a file    *)
(* of the output directory or to the terminal.  The two files are taken    *)
(* to be readable and to hold valid JSON, and the output to be writable.   *)

(* serde_json::to_string_pretty: two spaces per level, one element or      *)
(* member per line, ": " after a key; an empty container is "[]" or "{}".  *)
RECURSIVE to_string_pretty(_, _)
RECURSIVE PrettyValues(_, _, _)
RECURSIVE PrettyMembers(_, _, _, _)

PrettyValues(s, i, indent) ==
    IF i > Len(s) THEN ""
    ELSE (IF i > 1 THEN ",\n" ELSE "") \o indent \o to_string_pretty(s[i], indent)
         \o PrettyValues(s, i + 1, indent)

PrettyMembers(f, ks, i, indent) ==
    IF i > Len(ks) THEN ""
    ELSE (IF i > 1 THEN ",\n" ELSE "") \o indent \o "\"" \o ks[i] \o "\": "
         \o to_string_pretty(f[ks[i]], indent) \o PrettyMembers(f, ks, i + 1, indent)

to_string_pretty(x, indent) ==
    CASE x.t = "arr" ->
            IF x.v = << >> THEN "[]"
            ELSE "[\n" \o PrettyValues(x.v, 1, indent \o "  ") \o "\n" \o indent \o "]"
      [] x.t = "obj" ->
            IF DOMAIN x.v = {} THEN "{}"
            ELSE Only({"{\n" \o PrettyMembers(x.v, ks, 1, indent \o "  ")
                       \o "\n" \o indent \o "}" :
                         ks \in {SortedKeys(DOMAIN x.v)}})
      [] OTHER -> to_string(x)

(* Style::new().green() or .red() applied to a line: the line between the  *)
(* escape sequence of the colour (ESC is written ^[) and the reset.        *)
Styled(code, s) == "^[[" \o code \o "m" \o s \o "^[[0m"

(* What the output closure of colorize pushes for one call.  styled: the   *)
(* caller asked for colours and the console crate has them enabled.        *)
color_line(l, styled) ==
    (IF styled /\ l.color = "+" THEN Styled("32", l.color \o l.line)
     ELSE IF styled /\ l.color = "-" THEN Styled("31", l.color \o l.line)
     ELSE l.color \o l.line) \o "\n"

(* output.join("") of the pushed strings, from the n-th on. *)
RECURSIVE join_lines(_, _, _)
join_lines(lines, n, styled) ==
    IF n > Len(lines) THEN ""
    ELSE color_line(lines[n], styled) \o join_lines(lines, n + 1, styled)

(* colorize(diff, is_color): the String, or PanicValue. *)
colorize(diff_, styled) ==
    Only({ IF Panicked(lines) THEN PanicValue ELSE Str(join_lines(lines, 1, styled))
           : lines \in {colorize_to_array(diff_)} })

(* json_string of act_on_file for the Option that JsonDiff::diff gave:     *)
(* unwrap panics on None.                                                  *)
json_string_of(d, raw, styled) ==
    IF d = None \/ d = PanicValue THEN PanicValue
    ELSE IF raw THEN Str(to_string_pretty(d, ""))
    ELSE colorize(d, styled)

(* act_on_file on the parsed values json1 and json2, with cfg.only_keys =  *)
(* keys_only.  Equal values write nothing.  text is what was written:      *)
(* writeln! adds a newline in a file, the terminal gets the string as is.  *)
ActOnFile ==
    /\ pc = "start"
    /\ result' = IF json1 = json2 THEN result ELSE diff(json1, json2, keys_only)
    /\ \E raw, color, colors_enabled, to_file \in BOOLEAN :
          \E json_string \in {IF json1 = json2 THEN None
                              ELSE json_string_of(result'.diff, raw,
                                                  color /\ colors_enabled)} :
              /\ text' = IF json_string = None \/ json_string = PanicValue THEN text
                         ELSE Str(json_string.v \o (IF to_file THEN "\n" ELSE ""))
              /\ pc' = IF json_string = None THEN "same"
                       ELSE IF json_string = PanicValue THEN "panicked"
                       ELSE IF to_file THEN "file"
                       ELSE "terminal"
    /\ UNCHANGED <<json1, json2, keys_only, rendered>>

SpecCli == Init /\ [][ActOnFile]_vars

---------------------------------------------------------------------------
(* Properties of JsonDiff::diff, JsonDiff::diff_string and                 *)
(* colorize_to_array, stated over the states of Spec.                      *)

Called == result # Unset

IsScalar(x) == ~IsObject(x) /\ ~IsArray(x)

(* a and b are not both objects and not both arrays. *)
MixedOrScalar(a, b) ==
    ~(IsObject(a) /\ IsObject(b)) /\ ~(IsArray(a) /\ IsArray(b))

(* C1: reflexivity.  Once JsonDiff::diff has run on two equal values with  *)
(* keys_only false, its diff is None and its score is 100, or 100 times    *)
(* max(0.5, key count) when the value is an object.                        *)
C1_Reflexivity ==
    (Called /\ ~keys_only /\ json1 = json2)
        => /\ result.diff = None
           /\ result.score =
                 IF IsObject(json1)
                 THEN Max(F(100) * Cardinality(DOMAIN json1.v), F(50))
                 ELSE F(100)

(* C2: no missed difference.  Once JsonDiff::diff has run with keys_only   *)
(* false and its diff is None, the two values are equal.                   *)
C2_NoMissedDifference ==
    (Called /\ ~keys_only /\ result.diff = None) => json1 = json2

(* C2 happens: a None diff for two arrays of two or more elements that     *)
(* hold an object.                                                         *)
C2_Witness ==
    /\ Called /\ ~keys_only /\ result.diff = None
    /\ IsArray(json1) /\ Len(json1.v) >= 2
    /\ \E n \in 1 .. Len(json1.v) : IsObject(json1.v[n])

(* C3: dispatch on scalars and mixed categories.  When the two values are  *)
(* not both objects and not both arrays, JsonDiff::diff gives score 0 and  *)
(* the diff {"__old": a, "__new": b} if keys_only is false and a # b, and  *)
(* score 100 and the diff None otherwise.                                  *)
C3_ScalarDispatch ==
    (Called /\ MixedOrScalar(json1, json2))
        => IF ~keys_only /\ json1 # json2
           THEN /\ result.score = 0
                /\ IsObject(result.diff)
                /\ DOMAIN result.diff.v = {"__old", "__new"}
                /\ result.diff.v["__old"] = json1
                /\ result.diff.v["__new"] = json2
           ELSE /\ result.score = F(100)
                /\ result.diff = None

(* C3 happens: an object against an array, reported as an old/new pair. *)
C3_Witness ==
    /\ Called /\ ~keys_only
    /\ IsObject(json1) /\ IsArray(json2)
    /\ result.diff # None

(* x and y differ at most in scalar leaves: the same keys in every object, *)
(* a scalar wherever the other has a scalar and, where arrays are let in,  *)
(* arrays of the same length.                                              *)
RECURSIVE SameButLeaves(_, _, _)
SameButLeaves(x, y, arrays) ==
    CASE IsObject(x) /\ IsObject(y) ->
            /\ DOMAIN x.v = DOMAIN y.v
            /\ \A k \in DOMAIN x.v : SameButLeaves(x.v[k], y.v[k], arrays)
      [] IsArray(x) /\ IsArray(y) ->
            /\ arrays
            /\ Len(x.v) = Len(y.v)
            /\ \A n \in 1 .. Len(x.v) : SameButLeaves(x.v[n], y.v[n], arrays)
      [] OTHER -> IsScalar(x) /\ IsScalar(y)

(* C4 as stated: with keys_only true the diff of two scalars is None, and  *)
(* so is the diff of two objects with the same key sets whose values       *)
(* differ only in scalar leaves, arrays among the values included.         *)
C4_AsStated ==
    (/\ Called /\ keys_only
     /\ \/ IsScalar(json1) /\ IsScalar(json2)
        \/ IsObject(json1) /\ IsObject(json2) /\ SameButLeaves(json1, json2, TRUE))
        => result.diff = None

(* C4, amended: with keys_only true the diff of two scalars is None, and   *)
(* so is the diff of two objects with the same key sets whose values are,  *)
(* at every level, scalars or objects with the same key sets (no array),   *)
(* and differ only in scalar leaves.                                       *)
C4_KeysOnlyLeaves ==
    (/\ Called /\ keys_only
     /\ \/ IsScalar(json1) /\ IsScalar(json2)
        \/ IsObject(json1) /\ IsObject(json2) /\ SameButLeaves(json1, json2, FALSE))
        => result.diff = None

(* C4 happens: two different objects, each holding an object, that differ  *)
(* in a scalar leaf only.                                                  *)
C4_Witness ==
    /\ Called /\ keys_only
    /\ IsObject(json1) /\ IsObject(json2) /\ json1 # json2
    /\ SameButLeaves(json1, json2, FALSE)
    /\ \E k \in DOMAIN json1.v : IsObject(json1.v[k])

(* The entries the object key delta names for o1 and o2, as the set of     *)
(* <<name, value>>.                                                        *)
KeyDelta(o1, o2, keysOnly) ==
    {<<key \o "__deleted", o1[key]>> : key \in (DOMAIN o1) \ (DOMAIN o2)}
    \cup {<<key \o "__added", o2[key]>> : key \in (DOMAIN o2) \ (DOMAIN o1)}
    \cup {<<key, diff(o1[key], o2[key], keysOnly).diff>> :
            key \in {k \in (DOMAIN o1) \cap (DOMAIN o2) :
                       diff(o1[k], o2[k], keysOnly).diff # None}}

(* The entries of a diff mapping, none for None. *)
EntriesOf(d) == IF d = None THEN {} ELSE {<<key, d.v[key]>> : key \in DOMAIN d.v}

(* No two entries bear the same name. *)
DistinctNames(E) == \A p \in E : \A q \in E : p[1] = q[1] => p = q

(* C5 as stated: for any two objects and either keys_only, the diff        *)
(* mapping holds exactly the "<k>__deleted", "<k>__added" and changed      *)
(* shared-key entries of the key delta, and is None exactly when there is  *)
(* none.                                                                   *)
C5_AsStated ==
    (Called /\ IsObject(json1) /\ IsObject(json2))
        => /\ EntriesOf(result.diff) = KeyDelta(json1.v, json2.v, keys_only)
           /\ (result.diff = None) <=> (KeyDelta(json1.v, json2.v, keys_only) = {})

(* C5, amended: the same, for two objects whose key delta names no entry   *)
(* twice (no "<k>__deleted" or "<k>__added" equal to the name of another   *)
(* entry).                                                                 *)
C5_KeyDelta ==
    (/\ Called /\ IsObject(json1) /\ IsObject(json2)
     /\ DistinctNames(KeyDelta(json1.v, json2.v, keys_only)))
        => /\ EntriesOf(result.diff) = KeyDelta(json1.v, json2.v, keys_only)
           /\ (result.diff = None) <=> (KeyDelta(json1.v, json2.v, keys_only) = {})

(* C5 happens: a deleted key beside a shared key whose value changed. *)
C5_Witness ==
    /\ Called /\ ~keys_only /\ IsObject(json1) /\ IsObject(json2)
    /\ DistinctNames(KeyDelta(json1.v, json2.v, keys_only))
    /\ (DOMAIN json1.v) \ (DOMAIN json2.v) # {}
    /\ \E k \in (DOMAIN json1.v) \cap (DOMAIN json2.v) : json1.v[k] # json2.v[k]
    /\ result.diff # None

ScalarArray(x) == IsArray(x) /\ \A n \in 1 .. Len(x.v) : IsScalar(x.v[n])

(* The values of the entries tagged with one of tags, in order. *)
SideOf(entries, tags) ==
    [n \in 1 .. Len(SelectSeq(entries, LAMBDA e : e.v[1].v \in tags)) |->
        SelectSeq(entries, LAMBDA e : e.v[1].v \in tags)[n].v[2]]

(* C6: the edit script of two arrays of scalars with keys_only false is    *)
(* faithful: a diff that is not None is a sequence of two-element entries  *)
(* tagged " ", "-" or "+"; the values of its " " and "-" entries, in       *)
(* order, are the first array and those of its " " and "+" entries the     *)
(* second.                                                                 *)
C6_EditScript ==
    (/\ Called /\ ~keys_only
     /\ ScalarArray(json1) /\ ScalarArray(json2)
     /\ result.diff # None)
        => /\ IsArray(result.diff)
           /\ \A n \in 1 .. Len(result.diff.v) :
                 /\ IsArray(result.diff.v[n])
                 /\ Len(result.diff.v[n].v) = 2
                 /\ IsString(result.diff.v[n].v[1])
                 /\ result.diff.v[n].v[1].v \in {" ", "-", "+"}
           /\ SideOf(result.diff.v, {" ", "-"}) = json1.v
           /\ SideOf(result.diff.v, {" ", "+"}) = json2.v

(* C6 happens: an edit script with a kept, a deleted and an inserted       *)
(* element.                                                                *)
C6_Witness ==
    /\ Called /\ ~keys_only
    /\ ScalarArray(json1) /\ ScalarArray(json2)
    /\ result.diff # None
    /\ \A tag \in {" ", "-", "+"} :
          \E n \in 1 .. Len(result.diff.v) : result.diff.v[n].v[1] = Str(tag)

(* The positions at which two arrays of one length differ. *)
ChangedAt(a1, a2) == {n \in 1 .. Len(a1) : a1[n] # a2[n]}

(* The fields in which two objects of one key set differ. *)
ChangedFields(o1, o2) == {k \in DOMAIN o1 : o1[k] # o2[k]}

(* x and y are arrays of objects of equal length, and y differs from x     *)
(* only in the scalar value of one field of one element.                   *)
OneFieldChanged(x, y) ==
    /\ IsArray(x) /\ IsArray(y) /\ Len(x.v) = Len(y.v)
    /\ \A n \in 1 .. Len(x.v) : IsObject(x.v[n]) /\ IsObject(y.v[n])
    /\ Cardinality(ChangedAt(x.v, y.v)) = 1
    /\ \A n \in ChangedAt(x.v, y.v) :
          /\ DOMAIN x.v[n].v = DOMAIN y.v[n].v
          /\ Cardinality(ChangedFields(x.v[n].v, y.v[n].v)) = 1
          /\ \A k \in ChangedFields(x.v[n].v, y.v[n].v) :
                IsScalar(x.v[n].v[k]) /\ IsScalar(y.v[n].v[k])

(* The report of one changed field: ["~", {field: {__old, __new}}] at the  *)
(* changed position and [" "] at the others.                               *)
OneFieldReport(x, y) ==
    Arr([n \in 1 .. Len(x.v) |->
           IF x.v[n] = y.v[n] THEN Arr(<<Str(" ")>>)
           ELSE Arr(<<Str("~"),
                      Obj([k \in ChangedFields(x.v[n].v, y.v[n].v) |->
                             Obj([w \in {"__old", "__new"} |->
                                    IF w = "__old" THEN x.v[n].v[k]
                                    ELSE y.v[n].v[k]])])>>)])

(* The changed element of y scores above 40 against the element of x at    *)
(* its position, and against no element of x higher than that.             *)
BestAtItsPosition(x, y) ==
    \A n \in ChangedAt(x.v, y.v) :
       /\ diff(y.v[n], x.v[n], FALSE).score > 40 * ScoreUnit
       /\ \A m \in 1 .. Len(x.v) :
             diff(y.v[n], x.v[m], FALSE).score <= diff(y.v[n], x.v[n], FALSE).score

RECURSIVE JoinedByNewline(_)
JoinedByNewline(lines) ==
    IF Len(lines) = 0 THEN ""
    ELSE IF Len(lines) = 1 THEN lines[1].color \o lines[1].line
    ELSE JoinedByNewline(SubSeq(lines, 1, Len(lines) - 1))
         \o "\n" \o lines[Len(lines)].color \o lines[Len(lines)].line

(* C8: what JsonDiff::diff_string returns is None exactly when the diff of *)
(* JsonDiff::diff on the same inputs is None; otherwise it is the lines of *)
(* colorize_to_array on that diff joined by a newline, and one trailing    *)
(* newline.                                                                *)
C8_DiffString ==
    (Called /\ text # Unset /\ text # PanicValue)
        => /\ (text = None) <=> (result.diff = None)
           /\ result.diff # None
                 => text = Str(JoinedByNewline(colorize_to_array(result.diff)) \o "\n")

(* C8 happens: diff_string returned a text of three or more lines. *)
C8_Witness ==
    /\ pc = "rendered" /\ text # Unset /\ text # None
    /\ Len(rendered) >= 3

(* The diff of json1 and json2 is a top-level {__old, __new} pair. *)
TopLevelPair ==
    ~keys_only /\ json1 # json2 /\ MixedOrScalar(json1, json2)

C10_Symmetry ==
    Called => ((result.diff = None) <=> (diff(json2, json1, keys_only).diff = None))

(* C11: keys_only still reports added and removed array elements.  Once    *)
(* JsonDiff::diff has run with keys_only true on two arrays of different   *)
(* lengths, its diff is not None and holds a "-" entry or a "+" entry.     *)
C11_KeysOnlyLengths ==
    (/\ Called /\ keys_only
     /\ IsArray(json1) /\ IsArray(json2)
     /\ Len(json1.v) # Len(json2.v))
        => /\ result.diff # None
           /\ \E n \in 1 .. Len(result.diff.v) :
                 /\ IsArray(result.diff.v[n])
                 /\ result.diff.v[n].v # << >>
                 /\ result.diff.v[n].v[1] \in {Str("-"), Str("+")}

(* C12: the meaning of the public score with keys_only false.  Once        *)
(* JsonDiff::diff has run with keys_only false, a score of 100 comes with  *)
(* the diff None, equal values come with the score 100, and the score is   *)
(* never below 0.                                                          *)
C12_ScoreMeaning ==
    (Called /\ ~keys_only)
        => /\ result.score = F(100) => result.diff = None
           /\ json1 = json2 => result.score = F(100)
           /\ result.score >= 0

(* The pool that the elements of a second array are matched against: the   *)
(* originals that scalarize makes of the first array.                      *)
PoolOf(x) == scalarize(x.v, 1, NoFuzzy).originals

(* The position in the pool, from 0, of the candidate under key. *)
PoolPosition(pool, key) ==
    (CHOOSE p \in 1 .. Len(OriginalsKeys(pool)) : OriginalsKeys(pool)[p] = key) - 1

(* The distance between two positions, whichever comes first. *)
Distance(a, b) == IF a >= b THEN a - b ELSE b - a

(* best is the candidate of the pool with the highest score against item   *)
(* and, among those of that score, one nearest to index.                   *)
HighestThenNearest(best, item, index, pool) ==
    /\ best.some
    /\ \A key \in DOMAIN pool.map :
          /\ diff(item, pool.map[key], FALSE).score <= best.score
          /\ diff(item, pool.map[key], FALSE).score = best.score
                => Distance(PoolPosition(pool, best.key), index)
                      <= Distance(PoolPosition(pool, key), index)

(* C13: the tie-break of the fuzzy matcher.  For every element of the      *)
(* second array that array_diff hands to find_matching_object with a pool  *)
(* that is not empty, the match returned has the highest score of the      *)
(* pool and, among the candidates of that score, the smallest distance     *)
(* between its position in the pool and the element's index, before or     *)
(* after it.                                                               *)
C13_TieBreak ==
    (Called /\ IsArray(json1) /\ IsArray(json2))
        => \A n \in 1 .. Len(json2.v) :
              DOMAIN PoolOf(json1).map # {}
                 => HighestThenNearest(
                       find_matching_object(json2.v[n], n - 1, PoolOf(json1)),
                       json2.v[n], n - 1, PoolOf(json1))

(* The top-level category of a value: null, boolean, number, string,       *)
(* array or object.                                                        *)
Category(x) == x.t

(* C14: the category filter of the fuzzy matcher.  For every element of    *)
(* the second array that array_diff hands to find_matching_object, the     *)
(* match returned is a candidate of the element's category, and there is   *)
(* no match when the pool holds no candidate of that category.             *)
C14_CategoryFilter ==
    (Called /\ IsArray(json1) /\ IsArray(json2))
        => \A n \in 1 .. Len(json2.v) :
              /\ find_matching_object(json2.v[n], n - 1, PoolOf(json1)).some
                    => Category(PoolOf(json1).map[
                          find_matching_object(json2.v[n], n - 1, PoolOf(json1)).key])
                       = Category(json2.v[n])
              /\ (\A key \in DOMAIN PoolOf(json1).map :
                     Category(PoolOf(json1).map[key]) # Category(json2.v[n]))
                    => ~find_matching_object(json2.v[n], n - 1, PoolOf(json1)).some


(* ---------------------------------------------------------------------- *)
(* C15: the runtime invariant of the Array Differ is never violated.  For *)
(* every pair of arrays and either value of keys_only, every token inside *)
(* an 'equal' opcode that is scalarized in originals1 is also a key of    *)
(* originals2, every token the arms look up (descalarize, get_scalar) is  *)
(* found, and so no diff, at any depth, ends in a panic.                  *)
(* ---------------------------------------------------------------------- *)
Scalarized1(a) == scalarize(a.v, 1, NoFuzzy)

Scalarized2(a, b) ==
    Only({ scalarize(b.v, s1.originals.next, SomeFuzzy(s1.originals))
           : s1 \in {Scalarized1(a)} })

(* The tokens of seq1 that lie inside an 'equal' opcode. *)
EqualTokens(seq1, opcodes) ==
    { seq1[n + 1]
        : n \in { n \in 0 .. (Len(seq1) - 1)
                    : \E m \in DOMAIN opcodes
                        : /\ opcodes[m].tag = "equal"
                          /\ opcodes[m].first_start <= n
                          /\ n < opcodes[m].first_end } }

(* Every token of the sequence is found by descalarize. *)
TokensFound(s) ==
    \A n \in DOMAIN s.output_array :
        \/ is_scalarized(s.output_array[n], s.originals)
        \/ s.output_array[n] \in DOMAIN s.scalar_values

AssertionHolds(s1, s2) ==
    \A key \in EqualTokens(s1.output_array,
                           get_opcodes(s1.output_array, s2.output_array)) :
        /\ is_scalarized(key, s1.originals) => is_scalarized(key, s2.originals)
        /\ ~is_scalarized(key, s1.originals) => key \in DOMAIN s1.scalar_values

C15_ArrayInvariant ==
    Called =>
        /\ result.diff # PanicValue
        /\ (IsArray(json1) /\ IsArray(json2))
              => \A s1 \in {Scalarized1(json1)}, s2 \in {Scalarized2(json1, json2)} :
                    /\ AssertionHolds(s1, s2)
                    /\ TokensFound(s1)
                    /\ TokensFound(s2)

(* Two arrays whose 'equal' opcode holds a token scalarized in            *)
(* originals1: the assertion is evaluated on a placeholder.               *)
C15_Witness ==
    /\ Called
    /\ IsArray(json1)
    /\ IsArray(json2)
    /\ result.diff # None
    /\ \E s1 \in {Scalarized1(json1)}, s2 \in {Scalarized2(json1, json2)} :
          \E key \in EqualTokens(s1.output_array,
                                 get_opcodes(s1.output_array, s2.output_array)) :
              /\ is_scalarized(key, s1.originals)
              /\ s2.originals.map[key] # s1.originals.map[key]


(* ---------------------------------------------------------------------- *)
(* C16: diff-encoding detection of the renderer.  A sequence is rendered  *)
(* as diff-encoded if and only if every one of its elements is the        *)
(* one-element marker [' '] or a two-element [tag, value] pair whose tag  *)
(* is one of ' ', '-', '+', '~'; if any element has another shape, every  *)
(* element is rendered as a plain array element at the current marker.    *)
(* Stated on a removed array: json1 is an array, json2 a scalar, so the   *)
(* diff is {__old: json1, __new: json2} and json1 is rendered under "-".  *)
(* ---------------------------------------------------------------------- *)
ConformingEntry(item) ==
    /\ IsArray(item)
    /\ \/ Len(item.v) = 1 /\ item.v[1] = Str(" ")
       \/ Len(item.v) = 2 /\ IsString(item.v[1]) /\ item.v[1].v \in OPS

EveryEntryConforms(array) == \A n \in DOMAIN array : ConformingEntry(array[n])

(* The rendering the detection rule asks for. *)
RenderedByRule(array, color, indent) ==
    <<OutLine(color, indent \o "[")>>
    \o (IF EveryEntryConforms(array)
        THEN subcolorize_diff_items(array, 1, indent \o "  ")
        ELSE subcolorize_items(array, 1, color, indent \o "  "))
    \o <<OutLine(color, indent \o "]")>>

C16_Detection ==
    (/\ rendered # Unset /\ TopLevelPair /\ IsArray(json1) /\ IsScalar(json2))
        => rendered = RenderedByRule(json1.v, "-", "")
                      \o subcolorize(NoKey, json2, "+", "")


(* ---------------------------------------------------------------------- *)
(* C17: the renderer never fails.  For every diff that JsonDiff::diff     *)
(* produces from two values, colorize_to_array completes (no index out    *)
(* of bounds, no unwrap of None, no failed assert!), and so does          *)
(* JsonDiff::diff_string, which renders the same diff.                    *)
(* ---------------------------------------------------------------------- *)
C17_RendererNeverFails ==
    /\ rendered # Unset => ~Panicked(rendered)
    /\ text # PanicValue


(* ---------------------------------------------------------------------- *)
(* C18: shape invariant of array diffs.  In every array diff returned by  *)
(* array_diff, for either value of keys_only, every entry is a sequence   *)
(* of one of the forms [' '], [' ', V], ['-', V], ['+', V] or ['~', D];   *)
(* no entry is a bare string or any other shape, and the number of        *)
(* entries tagged ' ', '~' or '-' equals the length of array1.            *)
(* ---------------------------------------------------------------------- *)
TaggedEntry(e) ==
    /\ IsArray(e)
    /\ \/ e.v = <<Str(" ")>>
       \/ Len(e.v) = 2 /\ e.v[1] \in {Str(" "), Str("-"), Str("+"), Str("~")}

(* The entries that stand for an element of array1. *)
EntriesOfFirst(entries) ==
    { n \in DOMAIN entries :
        /\ IsArray(entries[n])
        /\ entries[n].v # << >>
        /\ entries[n].v[1] \in {Str(" "), Str("~"), Str("-")} }

C18_EntryShapes ==
    (/\ Called /\ IsArray(json1) /\ IsArray(json2)
     /\ result.diff # None /\ result.diff # PanicValue)
        => /\ IsArray(result.diff)
           /\ \A n \in DOMAIN result.diff.v : TaggedEntry(result.diff.v[n])
           /\ Cardinality(EntriesOfFirst(result.diff.v)) = Len(json1.v)


(* ---------------------------------------------------------------------- *)
(* C19: nested sequences take part in fuzzy matching.  When an element    *)
(* of array2 is itself a sequence that is structurally similar (its diff  *)
(* against a sequence element of array1 scores above 40) but not equal    *)
(* to it, scalarize gives it the matched element's token, so the pair is  *)
(* reported as a ['~', nested diff] entry and not as a '-' entry plus a   *)
(* '+' entry.  Stated on arrays of one element each.                      *)
(* ---------------------------------------------------------------------- *)
SimilarSequences(x, y) ==
    /\ IsArray(x) /\ IsArray(y) /\ x # y
    /\ diff(y, x, FALSE).score > F(FuzzyThreshold)

C19_NestedSequences ==
    (/\ Called /\ ~keys_only /\ IsArray(json1) /\ IsArray(json2)
     /\ Len(json1.v) = 1 /\ Len(json2.v) = 1
     /\ SimilarSequences(json1.v[1], json2.v[1]))
        => /\ Scalarized2(json1, json2).output_array
                = Scalarized1(json1).output_array
           /\ result.diff
                = Arr(<<Entry2("~", diff(json1.v[1], json2.v[1], FALSE).diff)>>)


(* ---------------------------------------------------------------------- *)
(* C20: the command-line wrapper never fails on valid input.  Whenever    *)
(* act_on_file has read two parsed values with json1 # json2, for either  *)
(* setting of the keys-only option, JsonDiff::diff returns a diff that is *)
(* not None, so the unwrap of json_diff.diff succeeds and a result is     *)
(* written.                                                               *)
(* ---------------------------------------------------------------------- *)
C20_CliNeverFails ==
    (pc # "start" /\ json1 # json2)
        => /\ result # Unset
           /\ result.diff # None
           /\ pc \in {"file", "terminal"}
           /\ text # Unset

=============================================================================
